---- MODULE Spec2Model ----
(***************************************************************************)
(* Model of src/main.py: the per-Pasal extraction pipeline for Indonesian  *)
(* statute texts.                                                          *)
(*                                                                         *)
(* A text is a sequence of characters (one-character strings).  Offsets    *)
(* are Python offsets: offset p lies before character t[p+1], so           *)
(* 0 <= p <= Len(t).  The two characters that cannot be written in a       *)
(* string literal are named: NUL (U+0000) and NBSP (U+00A0).               *)
(***************************************************************************)
EXTENDS Integers, Sequences, FiniteSets, TLC

VARIABLES
    pc,         \* where the run stands
    text,       \* the text at hand: raw_text, or the normalizer's input
    cleaned,    \* the normalizer's output
    blocks,     \* the result of detect_structure
    records,    \* the result of build_records_per_pdf (recs)
    idx,        \* the catalog entry main() is handling, from 1
    prim,       \* what _extract_with_pypdf did on its last call
    alt,        \* what _extract_with_pdfminer did on its last call
    txt,        \* txt of read_pdf_text
    primCalls,  \* calls of _extract_with_pypdf for this document
    fbCalls,    \* calls of _extract_with_pdfminer for this document
    outFile,    \* the lines of OUTPUT_FILE, one record each
    total,      \* total of main()
    log         \* the lines main() has printed

vars == <<pc, text, cleaned, blocks, records, idx, prim, alt, txt,
          primCalls, fbCalls, outFile, total, log>>

(***************************************************************************)
(* Characters and character classes.                                       *)
(***************************************************************************)
NUL == "NUL"
NBSP == "NBSP"

\* Python's \s and str.isspace(), restricted to the characters of the model.
\* "\r" is absent: both extractors delete it (lines 26 and 32).
SpaceChars == {" ", "\t", "\n", "\f", NBSP}

\* The line boundaries of str.splitlines() among the model's characters.
BreakChars == {"\n", "\f"}

\* [ \t] of the two whitespace-collapsing patterns.
BlankChars == {" ", "\t"}

\* \n of the pattern \n{4,}.
NewlineChars == {"\n"}

\* \d
DigitChars == {"0", "1", "2", "3", "4", "5", "6", "7", "8", "9"}

\* Case folding of re.IGNORECASE for the letters the model uses.
Lower(c) ==
    CASE c = "A" -> "a" [] c = "B" -> "b" [] c = "C" -> "c" [] c = "G" -> "g"
      [] c = "I" -> "i" [] c = "K" -> "k" [] c = "L" -> "l" [] c = "M" -> "m"
      [] c = "N" -> "n" [] c = "P" -> "p" [] c = "S" -> "s" [] c = "U" -> "u"
      [] c = "V" -> "v" [] c = "X" -> "x"
      [] OTHER -> c

\* [A-Za-z] under IGNORECASE, the letters the model uses.
LetterChars ==
    {"a", "b", "c", "g", "i", "k", "l", "m", "n", "p", "s", "u", "v", "x",
     "A", "B", "C", "G", "I", "K", "L", "M", "N", "P", "S", "U", "V", "X"}

\* [IVXLCM] under IGNORECASE (PASAL_ANY_RE).
RomanMChars == {"i", "v", "x", "l", "c", "m", "I", "V", "X", "L", "C", "M"}

\* [IVXLC] under IGNORECASE (BUKU_RE, BAB_RE).
RomanChars == {"i", "v", "x", "l", "c", "I", "V", "X", "L", "C"}

\* [0-9IVXLC] under IGNORECASE (BAGIAN_RE).
BagianChars == DigitChars \cup RomanChars

IsSpace(c) == c \in SpaceChars
IsBreak(c) == c \in BreakChars

(***************************************************************************)
(* Slices and greedy runs.                                                 *)
(***************************************************************************)
\* t[p] of Python.
At(t, p) == t[p + 1]

\* t[a:b] of Python.
Slice(t, a, b) == SubSeq(t, a + 1, b)

\* Where a greedy run of characters of the class S that starts at p ends.
RunEnd(t, p, S) ==
    CHOOSE q \in p..Len(t) :
        /\ q = Len(t) \/ At(t, q) \notin S
        /\ \A r \in p..(q - 1) : At(t, r) \in S

\* Where a greedy run of characters outside the class S that starts at p ends.
RunEndNot(t, p, S) ==
    CHOOSE q \in p..Len(t) :
        /\ q = Len(t) \/ At(t, q) \in S
        /\ \A r \in p..(q - 1) : At(t, r) \notin S

SkipSpace(t, p) == RunEnd(t, p, SpaceChars)

\* The offset just after the last character that is not whitespace, 0 when
\* there is none.
LastNonSpace(t) ==
    CHOOSE q \in 0..Len(t) :
        /\ q = 0 \/ ~IsSpace(t[q])
        /\ \A r \in (q + 1)..Len(t) : IsSpace(t[r])

\* str.strip()
Strip(t) ==
    LET a == SkipSpace(t, 0)
    IN  IF a = Len(t) THEN <<>> ELSE Slice(t, a, LastNonSpace(t))

\* str.rstrip()
RStrip(t) == Slice(t, 0, LastNonSpace(t))

\* str.splitlines(): a trailing line boundary opens no further line.
RECURSIVE SplitFrom(_, _)
SplitFrom(t, p) ==
    IF p >= Len(t) THEN <<>>
    ELSE LET q == RunEndNot(t, p, BreakChars)
         IN  <<Slice(t, p, q)>> \o SplitFrom(t, q + 1)

SplitLines(t) == SplitFrom(t, 0)

\* "\n".join(lines)
RECURSIVE JoinFrom(_, _)
JoinFrom(lines, i) ==
    IF i > Len(lines) THEN <<>>
    ELSE IF i = Len(lines) THEN lines[i]
    ELSE lines[i] \o <<"\n">> \o JoinFrom(lines, i + 1)

Join(lines) == JoinFrom(lines, 1)

\* re.sub of a run pattern [S]{minLen,} by repl, from offset p on.
RECURSIVE CollapseFrom(_, _, _, _, _)
CollapseFrom(t, p, S, minLen, repl) ==
    IF p >= Len(t) THEN <<>>
    ELSE IF At(t, p) \in S
         THEN LET q == RunEnd(t, p, S)
              IN  (IF q - p >= minLen THEN repl ELSE Slice(t, p, q))
                  \o CollapseFrom(t, q, S, minLen, repl)
         ELSE LET q == RunEndNot(t, p, S)
              IN  Slice(t, p, q) \o CollapseFrom(t, q, S, minLen, repl)

(***************************************************************************)
(* minimal_clean                                                           *)
(***************************************************************************)
\* t.replace('\x00', '')
RemoveNul(t) == SelectSeq(t, LAMBDA c : c # NUL)

\* unicodedata.normalize('NFKC', t) on the model's characters: the
\* no-break space is a compatibility form of the space.
Nfkc(t) == [i \in 1..Len(t) |-> IF t[i] = NBSP THEN " " ELSE t[i]]

\* re.sub(r'-\n\s*', '', t), from offset p on.
RECURSIVE RejoinFrom(_, _)
RejoinFrom(t, p) ==
    LET hits == {q \in p..(Len(t) - 2) : At(t, q) = "-" /\ At(t, q + 1) = "\n"}
    IN  IF hits = {} THEN Slice(t, p, Len(t))
        ELSE LET h == CHOOSE q \in hits : \A r \in hits : q <= r
             IN  Slice(t, p, h) \o RejoinFrom(t, SkipSpace(t, h + 2))

RejoinHyphen(t) == RejoinFrom(t, 0)

\* [ln.rstrip() for ln in t.splitlines()], joined by "\n"
TrimLines(t) ==
    LET lines == SplitLines(t)
    IN  Join([i \in 1..Len(lines) |-> RStrip(lines[i])])

\* re.sub(r'\n{4,}', '\n\n', text)
NewlineRunMin == 4
NewlineRunRepl == <<"\n", "\n">>

\* Mutant of CollapseNewlines: the threshold off by one (5 or more).
CollapseNewlinesFromFive(t) ==
    CollapseFrom(t, 0, NewlineChars, NewlineRunMin + 1, NewlineRunRepl)

CollapseNewlines(t) ==
    CollapseFrom(t, 0, NewlineChars, NewlineRunMin, NewlineRunRepl)

\* re.sub(r'[ \t]{2,}', ' ', text)
BlankRunMin == 2
CollapseBlanks(t) ==
    CollapseFrom(t, 0, BlankChars, BlankRunMin, <<" ">>)

minimal_clean(t) ==
    Strip(CollapseBlanks(CollapseNewlines(TrimLines(
        RejoinHyphen(Nfkc(RemoveNul(t)))))))

(***************************************************************************)
(* The patterns of detect_structure.  A match is [start, stop, label];     *)
(* start = -1 stands for "no match".                                       *)
(***************************************************************************)
KwPasal == <<"P", "a", "s", "a", "l">>
KwBuku == <<"B", "U", "K", "U">>
KwBab == <<"B", "A", "B">>
KwBagian == <<"B", "a", "g", "i", "a", "n">>

NoMatch == [start |-> -1, stop |-> -1, label |-> <<>>]

\* A literal of a pattern under IGNORECASE at offset p.
HasWordAt(t, p, w) ==
    /\ p + Len(w) <= Len(t)
    /\ \A i \in 1..Len(w) : Lower(t[p + i]) = Lower(w[i])

\* ^ under MULTILINE: the start of the text or just after a line feed.
LineStart(t, p) == p = 0 \/ At(t, p - 1) = "\n"

\* \s*$ under MULTILINE from offset e: the greedy whitespace run is given
\* back until the end of the text or a line feed follows; -1 when neither does.
TrailEnd(t, e) ==
    LET w == SkipSpace(t, e)
        nl == {r \in e..(w - 1) : At(t, r) = "\n"}
    IN  IF w = Len(t) THEN Len(t)
        ELSE IF nl = {} THEN -1
        ELSE CHOOSE r \in nl : \A r2 \in nl : r2 <= r

\* PASAL_ANY_RE tried at offset p:
\* ^\s*Pasal\s+((\d+[A-Za-z]?)|([IVXLCM]+))\s*$
\* Each greedy run is followed by a character outside its class, so giving
\* characters back never helps: the digits (with one letter after them, if
\* there is one) or else the Roman letters are taken whole.
PasalAt(t, p) ==
    LET a == SkipSpace(t, p)
        b == a + Len(KwPasal)
        c == SkipSpace(t, b)
        d == RunEnd(t, c, DigitChars)
        e == IF d > c
              THEN (IF d < Len(t) /\ At(t, d) \in LetterChars THEN d + 1 ELSE d)
              ELSE RunEnd(t, c, RomanMChars)
    IN  IF /\ LineStart(t, p)
           /\ HasWordAt(t, a, KwPasal)
           /\ c > b
           /\ e > c
           /\ TrailEnd(t, e) >= 0
        THEN [start |-> p, stop |-> TrailEnd(t, e), label |-> Slice(t, c, e)]
        ELSE NoMatch

\* The header pattern of line 92 tried at offset p:
\* ^\s*Pasal\s+<label>\s*$
HeaderAt(t, p, label) ==
    LET a == SkipSpace(t, p)
        b == a + Len(KwPasal)
        c == SkipSpace(t, b)
        e == c + Len(label)
    IN  IF /\ LineStart(t, p)
           /\ HasWordAt(t, a, KwPasal)
           /\ c > b
           /\ HasWordAt(t, c, label)
           /\ TrailEnd(t, e) >= 0
        THEN [start |-> p, stop |-> TrailEnd(t, e), label |-> Slice(t, c, e)]
        ELSE NoMatch

\* PASAL_ANY_RE.finditer(t) from offset pos on: the leftmost match, then the
\* leftmost match that starts at or after its end, and so on.
RECURSIVE FindIterFrom(_, _)
FindIterFrom(t, pos) ==
    LET cands == {p \in pos..(Len(t) - 1) : PasalAt(t, p).start >= 0}
    IN  IF cands = {} THEN <<>>
        ELSE LET m == PasalAt(t, CHOOSE p \in cands : \A q \in cands : p <= q)
             IN  <<m>> \o FindIterFrom(t, m.stop)

FindIter(t) == FindIterFrom(t, 0)

\* re.sub(header pattern, '', body) from offset pos on.
RECURSIVE RemoveHeadersFrom(_, _, _)
RemoveHeadersFrom(t, pos, label) ==
    LET cands == {p \in pos..(Len(t) - 1) : HeaderAt(t, p, label).start >= 0}
    IN  IF cands = {} THEN Slice(t, pos, Len(t))
        ELSE LET m == HeaderAt(t, CHOOSE p \in cands : \A q \in cands : p <= q,
                               label)
             IN  Slice(t, pos, m.start) \o RemoveHeadersFrom(t, m.stop, label)

RemoveHeaders(t, label) == RemoveHeadersFrom(t, 0, label)

\* BUKU_RE, BAB_RE and BAGIAN_RE matched against one line:
\* ^\s*<keyword>\s+([<class>]+)\s*(.*)$ ; the value is the end of group 1,
\* -1 when the line does not match.
MarkerLabelEnd(ln, kw, S) ==
    LET a == SkipSpace(ln, 0)
        b == a + Len(kw)
        c == SkipSpace(ln, b)
        e == RunEnd(ln, c, S)
    IN  IF HasWordAt(ln, a, kw) /\ c > b /\ e > c THEN e ELSE -1

\* The tag appended for a matching line: (kind, group 1, group 2), stripped.
MarkerTag(ln, kind, kw, S) ==
    LET e == MarkerLabelEnd(ln, kw, S)
        c == SkipSpace(ln, SkipSpace(ln, 0) + Len(kw))
    IN  [kind |-> kind,
         label |-> Slice(ln, c, e),
         title |-> Strip(Slice(ln, e, Len(ln)))]

\* None, where a label or a tag is expected.
None == <<"None">>
NoTag == [kind |-> "None", label |-> None, title |-> <<>>]

(***************************************************************************)
(* detect_structure                                                        *)
(***************************************************************************)
\* line_starts: pos = 0; for each line: append pos; pos += len(ln) + 1
RECURSIVE LineStartsFrom(_, _, _)
LineStartsFrom(lines, i, pos) ==
    IF i > Len(lines) THEN <<>>
    ELSE <<pos>> \o LineStartsFrom(lines, i + 1, pos + Len(lines[i]) + 1)

LineStarts(lines) == LineStartsFrom(lines, 1, 0)

\* One family's list of marks, (line start, tag), in line order.
Marks(t, kind, kw, S) ==
    LET lines == SplitLines(t)
        starts == LineStarts(lines)
        all == [i \in 1..Len(lines) |-> [off |-> starts[i], ln |-> lines[i]]]
        hit == SelectSeq(all, LAMBDA x : MarkerLabelEnd(x.ln, kw, S) >= 0)
    IN  [i \in 1..Len(hit) |->
            [off |-> hit[i].off, tag |-> MarkerTag(hit[i].ln, kind, kw, S)]]

buku_marks(t) == Marks(t, "BUKU", KwBuku, RomanChars)
bab_marks(t) == Marks(t, "BAB", KwBab, RomanChars)
bagian_marks(t) == Marks(t, "BAGIAN", KwBagian, BagianChars)

\* The loop of nearest_tag from mark i on, prev being the tag kept so far.
RECURSIVE NearestFrom(_, _, _, _)
NearestFrom(start, marks, i, prev) ==
    IF i > Len(marks) THEN prev
    ELSE IF marks[i].off <= start
         THEN NearestFrom(start, marks, i + 1, marks[i].tag)
         ELSE prev

\* Mutant of nearest_tag: the scan stops at the first mark at or before start.
nearest_tag_first(start, marks) ==
    IF marks # <<>> /\ marks[1].off <= start THEN marks[1].tag ELSE NoTag

nearest_tag(start, marks) == NearestFrom(start, marks, 1, NoTag)

\* Mutant of BlockEnd: a block ends where its header match ends.
BlockEndAtMatchEnd(t, ms, i) == ms[i].stop

\* Mutant of BlockEnd: every block runs to the end of the text.
BlockEndAtTextEnd(t, ms, i) == Len(t)

\* Where block i of the matches ms ends.
BlockEnd(t, ms, i) == IF i + 1 <= Len(ms) THEN ms[i + 1].start ELSE Len(t)

\* The body of a block: the span, stripped, without its header line, its
\* runs of spaces and tabs replaced by one space.
BlockBody(t, start, stop, label) ==
    LET body == Strip(Slice(t, start, stop))
        bare == Strip(RemoveHeaders(body, label))
    IN  CollapseFrom(bare, 0, BlankChars, 1, <<" ">>)

\* The blocks of a text.  start and stop are the loop's locals of the same
\* name (stop is "end"), kept in the block for the properties.
detect_structure(t) ==
    LET ms == FindIter(t)
    IN  [i \in 1..Len(ms) |->
            [pasal_number |-> ms[i].label,
             text |-> BlockBody(t, ms[i].start, BlockEnd(t, ms, i), ms[i].label),
             buku |-> nearest_tag(ms[i].start, buku_marks(t)),
             bab |-> nearest_tag(ms[i].start, bab_marks(t)),
             bagian |-> nearest_tag(ms[i].start, bagian_marks(t)),
             start |-> ms[i].start,
             stop |-> BlockEnd(t, ms, i)]]

(***************************************************************************)
(* build_records_per_pdf                                                   *)
(***************************************************************************)
TagLabel(tag) == IF tag = NoTag THEN None ELSE tag.label

\* The record of one block.  cfg stands for the fields copied from the
\* catalog entry: uu_code, uu_name, uu_number, year, valid_from, valid_to and
\* source_file.
RecordOf(cfg, blk) ==
    [cfg |-> cfg,
     section_type |-> "PASAL",
     title |-> KwPasal \o <<" ">> \o blk.pasal_number,
     pasal_number |-> blk.pasal_number,
     ayat_number |-> None,
     buku |-> TagLabel(blk.buku),
     bab |-> TagLabel(blk.bab),
     bagian |-> TagLabel(blk.bagian),
     text |-> minimal_clean(blk.text)]

\* not raw_text or not raw_text.strip()
IsBlankText(t) == Strip(t) = <<>>

\* Mutant of RecordsOf: a block whose cleaned text is empty gives no record.
RecordsOfNonEmpty(cfg, blks) ==
    LET all == [i \in 1..Len(blks) |-> RecordOf(cfg, blks[i])]
    IN  SelectSeq(all, LAMBDA r : r.text # <<>>)

RecordsOf(cfg, blks) == [i \in 1..Len(blks) |-> RecordOf(cfg, blks[i])]

\* The blocks and the records build_records_per_pdf computes from raw_text.
BlocksOfRaw(raw) == IF IsBlankText(raw) THEN <<>> ELSE detect_structure(raw)

RecordsOfRaw(cfg, raw) == RecordsOf(cfg, BlocksOfRaw(raw))

(***************************************************************************)
(* read_pdf_text: what an extractor does is an outcome, a text or an       *)
(* exception.                                                              *)
(***************************************************************************)
NoOutcome == [raised |-> FALSE, text |-> <<>>]
Raised == [raised |-> TRUE, text |-> <<>>]
Returned(t) == [raised |-> FALSE, text |-> t]

\* if len(txt) < 500
MinLen == 500

\* Mutant of FallbackResult: the fallback's text wins a tie in length.
FallbackResultOnTie(t, o) ==
    IF ~o.raised /\ Len(o.text) >= Len(t) THEN o.text ELSE t

\* Lines 41-47: what read_pdf_text returns once the fallback has run with
\* outcome o, t being txt.
FallbackResult(t, o) ==
    IF ~o.raised /\ Len(o.text) > Len(t) THEN o.text ELSE t

(***************************************************************************)
(* One document text through build_records_per_pdf (SpecDetect).           *)
(***************************************************************************)
MaxLines == 3

DetectLines ==
    { KwPasal \o <<" ", "1">>,
      <<" ", "P", "A", "S", "A", "L", " ", "2", " ">>,
      KwBab \o <<" ", "I">>,
      KwBab \o <<" ", "I", "I", " ", "x">>,
      KwBuku \o <<" ", "I">>,
      KwBagian \o <<" ", "1">>,
      <<"x", "\f">> \o KwBab \o <<" ", "I">>,
      <<>>,
      <<"x">>,
      <<"P", "a", "-">>,
      <<"s", "a", "l", " ", "1">> }

DetectInputs ==
    {Join(ls) : ls \in UNION {[1..k -> DetectLines] : k \in 0..MaxLines}}

InitDetect ==
    /\ pc = "input"
    /\ text \in DetectInputs
    /\ cleaned = <<>>
    /\ blocks = <<>>
    /\ records = <<>>
    /\ idx = 1
    /\ prim = NoOutcome
    /\ alt = NoOutcome
    /\ txt = <<>>
    /\ primCalls = 0
    /\ fbCalls = 0
    /\ outFile = <<>>
    /\ total = 0
    /\ log = <<>>

\* build_records_per_pdf from the extracted text on: the blocks of
\* detect_structure and one record per block.
BuildRecords ==
    /\ pc = "input"
    /\ blocks' = BlocksOfRaw(text)
    /\ records' = RecordsOf(idx, BlocksOfRaw(text))
    /\ pc' = "built"
    /\ UNCHANGED <<text, cleaned, idx, prim, alt, txt, primCalls, fbCalls,
                   outFile, total, log>>

NextDetect == BuildRecords

SpecDetect == InitDetect /\ [][NextDetect]_vars

(***************************************************************************)
(* Properties of the structure detector (SpecDetect).                      *)
(***************************************************************************)
\* How many block spans [start, stop) hold offset p.
SpansHolding(p) ==
    Cardinality({i \in 1..Len(blocks) : blocks[i].start <= p /\ p < blocks[i].stop})

\* The offsets at which PASAL_ANY_RE matches.
HeaderOffsets(t) == {p \in 0..(Len(t) - 1) : PasalAt(t, p).start >= 0}

\* The offsets of the keyword of a header line, and the label there.
KeywordOffsets(t) == {SkipSpace(t, p) : p \in HeaderOffsets(t)}

LabelAtKeyword(t, a) ==
    PasalAt(t, CHOOSE p \in HeaderOffsets(t) : SkipSpace(t, p) = a).label

\* The i-th smallest element of a set of numbers.
Nth(S, i) == CHOOSE x \in S : Cardinality({y \in S : y <= x}) = i

\* C1 as stated, for the texts in which a header is found: every offset of
\* the text lies in exactly one block span.
CoverageOfWholeText ==
    (pc = "built" /\ blocks # <<>>) =>
        \A p \in 0..(Len(text) - 1) : SpansHolding(p) = 1

\* C1 as amended: the block spans cover, exactly once, the offsets from the
\* start of the first header match to the end of the text; an offset before
\* the first header match, and every offset of a text without a header,
\* lies in no block span.
CoverageFromFirstHeader ==
    pc = "built" =>
        \A p \in 0..(Len(text) - 1) :
            SpansHolding(p) =
                IF \E h \in HeaderOffsets(text) : h <= p THEN 1 ELSE 0

\* C1 witness: two blocks behind text that precedes the first header.
CoverageWitness ==
    /\ pc = "built"
    /\ Len(blocks) = 2
    /\ blocks[1].start > 0
    /\ blocks[2].stop = Len(text)

\* The mark of a family with the greatest offset at or before start.
GreatestMarkAtOrBefore(marks, start) ==
    LET S == {k \in 1..Len(marks) : marks[k].off <= start}
    IN  IF S = {} THEN NoTag
        ELSE marks[CHOOSE k \in S : \A j \in S : marks[j].off <= marks[k].off].tag

\* A family's marks are in strictly ascending offset order, and each offset
\* is the offset in the text at which a line with the keyword begins.
MarksInOrder(t, marks, kw) ==
    /\ \A j, k \in 1..Len(marks) : j < k => marks[j].off < marks[k].off
    /\ \A k \in 1..Len(marks) :
        /\ marks[k].off = 0 \/ IsBreak(At(t, marks[k].off - 1))
        /\ HasWordAt(t, SkipSpace(t, marks[k].off), kw)

\* C2: for every block and each family on its own, the associated marker is
\* the one with the greatest offset <= the block's start offset, None when
\* there is none; each family's marks are in ascending offset order.
NearestMarkerCorrect ==
    pc = "built" =>
        /\ MarksInOrder(text, buku_marks(text), KwBuku)
        /\ MarksInOrder(text, bab_marks(text), KwBab)
        /\ MarksInOrder(text, bagian_marks(text), KwBagian)
        /\ \A i \in 1..Len(blocks) :
            /\ blocks[i].buku =
                 GreatestMarkAtOrBefore(buku_marks(text), blocks[i].start)
            /\ blocks[i].bab =
                 GreatestMarkAtOrBefore(bab_marks(text), blocks[i].start)
            /\ blocks[i].bagian =
                 GreatestMarkAtOrBefore(bagian_marks(text), blocks[i].start)
            /\ records[i].buku = TagLabel(blocks[i].buku)
            /\ records[i].bab = TagLabel(blocks[i].bab)
            /\ records[i].bagian = TagLabel(blocks[i].bagian)

\* C2 witness: a block behind two BAB markers takes the second; another
\* family has no marker before it.
NearestMarkerWitness ==
    /\ pc = "built"
    /\ Len(blocks) = 1
    /\ Len(bab_marks(text)) = 2
    /\ bab_marks(text)[2].off <= blocks[1].start
    /\ blocks[1].bab = bab_marks(text)[2].tag
    /\ blocks[1].buku = NoTag

\* A line that is the keyword Pasal followed by the label and nothing else.
IsHeaderLine(ln, label) == ln # <<>> /\ HeaderAt(ln, 0, label).stop = Len(ln)

\* C3: no line of a record's cleaned text is the keyword Pasal followed by
\* that record's own article label.
OwnHeaderStripped ==
    pc = "built" =>
        \A i \in 1..Len(records) :
            \A j \in 1..Len(SplitLines(records[i].text)) :
                ~IsHeaderLine(SplitLines(records[i].text)[j],
                              records[i].pasal_number)

\* C8: one block per detected header line and one record per block, in the
\* order of the header lines; the record's pasal_number is the label of its
\* header line; a text without a header gives no record.
BlockPerHeaderInOrder ==
    pc = "built" =>
        /\ Len(blocks) = Cardinality(KeywordOffsets(text))
        /\ Len(records) = Len(blocks)
        /\ \A i \in 1..Len(records) :
            /\ records[i].pasal_number =
                 LabelAtKeyword(text, Nth(KeywordOffsets(text), i))
            /\ records[i].pasal_number = blocks[i].pasal_number
            /\ records[i].title = KwPasal \o <<" ">> \o blocks[i].pasal_number
            /\ records[i].text = minimal_clean(blocks[i].text)

\* C8 witness: two headers with the same label give two records, the first
\* with an empty cleaned text.
DuplicateLabelWitness ==
    /\ pc = "built"
    /\ Len(records) = 3
    /\ records[1].pasal_number = records[2].pasal_number
    /\ records[1].pasal_number # records[3].pasal_number
    /\ records[1].text = <<>>

\* C10: each block starts where a header match starts and ends where the
\* next block starts; starts are strictly increasing; the last block ends
\* at the end of the text.
SpanContiguity ==
    (pc = "built" /\ blocks # <<>>) =>
        /\ \A i \in 1..Len(blocks) :
            /\ blocks[i].start \in HeaderOffsets(text)
            /\ blocks[i].start < blocks[i].stop
            /\ i < Len(blocks) => blocks[i].stop = blocks[i + 1].start
        /\ blocks[Len(blocks)].stop = Len(text)

\* C10 witness: two contiguous blocks, the last with a body.
SpanContiguityWitness ==
    /\ pc = "built"
    /\ Len(blocks) = 2
    /\ blocks[1].stop = blocks[2].start
    /\ blocks[2].text # <<>>
    /\ blocks[2].stop = Len(text)

(***************************************************************************)
(* main(): the run over the catalog (Spec).                                *)
(***************************************************************************)
\* The catalog entries the model runs over (PDF_FILES has 8).
NumDocs == 2

Pad(t, n) == t \o [i \in 1..(n - Len(t)) |-> "x"]

ShortA == KwPasal \o <<" ", "1", "\n", "x">>
ShortB == KwPasal \o <<" ", "2", "\n", "y">>

\* The texts an extractor may return: empty, whitespace only, two short
\* texts of equal length, and texts of MinLen - 1 and MinLen characters.
DocTexts ==
    { <<>>,
      <<" ", "\n">>,
      ShortA,
      ShortB,
      Pad(ShortA \o <<"\n">>, MinLen - 1),
      Pad(ShortB \o <<"\n">>, MinLen) }

Outcomes == {Raised} \cup {Returned(t) : t \in DocTexts}

\* A line main() prints: "missing" (line 172), "error" (line 177), "ok" with
\* the number of records (line 180), "total" with the total (line 182).
Printed(kind, doc, n) == [kind |-> kind, doc |-> doc, n |-> n]

\* A line left in OUTPUT_FILE by an earlier run.
StaleRecord ==
    RecordOf(0, [pasal_number |-> <<"9">>, text |-> <<>>, buku |-> NoTag,
                 bab |-> NoTag, bagian |-> NoTag])

Init ==
    /\ pc = "start"
    /\ text = <<>>
    /\ cleaned = <<>>
    /\ blocks = <<>>
    /\ records = <<>>
    /\ idx = 1
    /\ prim = NoOutcome
    /\ alt = NoOutcome
    /\ txt = <<>>
    /\ primCalls = 0
    /\ fbCalls = 0
    /\ outFile \in {<<>>, <<StaleRecord>>}
    /\ total = 0
    /\ log = <<>>

\* Lines 166-168: clear the output file, total = 0.
Start ==
    /\ pc = "start"
    /\ outFile' = <<>>
    /\ total' = 0
    /\ pc' = "loop"
    /\ UNCHANGED <<text, cleaned, blocks, records, idx, prim, alt, txt,
                   primCalls, fbCalls, log>>

\* Mutant of SkipMissing: a missing source file ends the run (break for
\* continue).
SkipMissingEndsRun ==
    /\ pc = "loop"
    /\ idx <= NumDocs
    /\ pc' = "done"
    /\ log' = Append(log, Printed("missing", idx, 0))
    /\ UNCHANGED <<text, cleaned, blocks, records, idx, prim, alt, txt,
                   primCalls, fbCalls, outFile, total>>

\* Lines 170-173: the source file does not exist; skip the entry.
SkipMissing ==
    /\ pc = "loop"
    /\ idx <= NumDocs
    /\ idx' = idx + 1
    /\ log' = Append(log, Printed("missing", idx, 0))
    /\ UNCHANGED <<pc, text, cleaned, blocks, records, prim, alt, txt,
                   primCalls, fbCalls, outFile, total>>

\* Lines 171, 175, 123-124: the source file exists; build_records_per_pdf
\* is entered and calls read_pdf_text.
BeginDoc ==
    /\ pc = "loop"
    /\ idx <= NumDocs
    /\ pc' = "primary"
    /\ text' = <<>>
    /\ blocks' = <<>>
    /\ records' = <<>>
    /\ prim' = NoOutcome
    /\ alt' = NoOutcome
    /\ txt' = <<>>
    /\ primCalls' = 0
    /\ fbCalls' = 0
    /\ UNCHANGED <<cleaned, idx, outFile, total, log>>

\* Lines 36-39: the primary extractor is called; an exception leaves txt "".
CallPrimary ==
    /\ pc = "primary"
    /\ \E o \in Outcomes :
        /\ prim' = o
        /\ txt' = IF o.raised THEN <<>> ELSE o.text
    /\ primCalls' = primCalls + 1
    /\ pc' = "check"
    /\ UNCHANGED <<text, cleaned, blocks, records, idx, alt, fbCalls,
                   outFile, total, log>>

\* Lines 40, 47: txt is long enough and is returned.
ReturnPrimary ==
    /\ pc = "check"
    /\ ~(Len(txt) < MinLen)
    /\ text' = txt
    /\ pc' = "build"
    /\ UNCHANGED <<cleaned, blocks, records, idx, prim, alt, txt, primCalls,
                   fbCalls, outFile, total, log>>

\* Lines 40-47: txt is short; the fallback extractor is called once and the
\* longer text is returned.
CallFallback ==
    /\ pc = "check"
    /\ Len(txt) < MinLen
    /\ \E o \in Outcomes :
        /\ alt' = o
        /\ text' = FallbackResult(txt, o)
    /\ fbCalls' = fbCalls + 1
    /\ pc' = "build"
    /\ UNCHANGED <<cleaned, blocks, records, idx, prim, txt, primCalls,
                   outFile, total, log>>

\* Lines 125-156 and 175: build_records_per_pdf returns its records.
BuildOk ==
    /\ pc = "build"
    /\ blocks' = BlocksOfRaw(text)
    /\ records' = RecordsOf(idx, BlocksOfRaw(text))
    /\ pc' = "write"
    /\ UNCHANGED <<text, cleaned, idx, prim, alt, txt, primCalls, fbCalls,
                   outFile, total, log>>

\* Lines 127-156 and 176-178: an exception leaves build_records_per_pdf
\* while the text is processed; main() reports it and goes on.
BuildRaise ==
    /\ pc = "build"
    /\ ~IsBlankText(text)
    /\ idx' = idx + 1
    /\ pc' = "loop"
    /\ log' = Append(log, Printed("error", idx, 0))
    /\ UNCHANGED <<text, cleaned, blocks, records, prim, alt, txt, primCalls,
                   fbCalls, outFile, total>>

\* Lines 179-181 and 159-162: the records are appended, total grows.
WriteOk ==
    /\ pc = "write"
    /\ outFile' = outFile \o records
    /\ total' = total + Len(records)
    /\ idx' = idx + 1
    /\ pc' = "loop"
    /\ log' = Append(log, Printed("ok", idx, Len(records)))
    /\ UNCHANGED <<text, cleaned, blocks, records, prim, alt, txt, primCalls,
                   fbCalls>>

\* Lines 179 and 159-162: open() or fh.write() raises after k records were
\* written; write_jsonl is called outside the try, so the exception leaves
\* main().
WriteRaise ==
    /\ pc = "write"
    /\ \E k \in 0..Len(records) : outFile' = outFile \o SubSeq(records, 1, k)
    /\ pc' = "aborted"
    /\ UNCHANGED <<text, cleaned, blocks, records, idx, prim, alt, txt,
                   primCalls, fbCalls, total, log>>

\* Lines 169, 182: the catalog is exhausted; the total is reported.
Finish ==
    /\ pc = "loop"
    /\ idx > NumDocs
    /\ pc' = "done"
    /\ log' = Append(log, Printed("total", 0, total))
    /\ UNCHANGED <<text, cleaned, blocks, records, idx, prim, alt, txt,
                   primCalls, fbCalls, outFile, total>>

Next ==
    \/ Start
    \/ SkipMissing
    \/ BeginDoc
    \/ CallPrimary
    \/ ReturnPrimary
    \/ CallFallback
    \/ BuildOk
    \/ BuildRaise
    \/ WriteOk
    \/ WriteRaise
    \/ Finish

Spec == Init /\ [][Next]_vars

(***************************************************************************)
(* Properties of the run (Spec).                                           *)
(***************************************************************************)
\* The lines of the output file that belong to catalog entry d.
LinesOfDoc(d) == {i \in 1..Len(outFile) : outFile[i].cfg = d}

\* The catalog entries main() has reported on.
Reported == {k \in 1..Len(log) : log[k].kind # "total"}

\* C6: a document that is missing or raises inside build_records_per_pdf
\* contributes no record and adds nothing to the total; every catalog entry
\* is handled, in catalog order, whatever happened to the entries before it;
\* the records of the other documents are appended in catalog order.
FailureIsolation ==
    /\ \A k \in Reported : log[k].doc = k
    /\ pc = "loop" => Len(log) = idx - 1
    /\ pc = "done" => Len(log) = NumDocs + 1 /\ Reported = 1..NumDocs
    /\ \A k \in Reported :
        Cardinality(LinesOfDoc(k)) = IF log[k].kind = "ok" THEN log[k].n ELSE 0
    /\ \A i, j \in 1..Len(outFile) : i < j => outFile[i].cfg <= outFile[j].cfg
    /\ pc \in {"loop", "done"} =>
        /\ total = Len(outFile)
        /\ \A i \in 1..Len(outFile) : outFile[i].cfg \in Reported

\* C6 witness: the first document failed (missing, or an exception while
\* building), the second one was still handled and its records written.
FailureIsolationWitness ==
    /\ pc = "done"
    /\ log[1].kind \in {"missing", "error"}
    /\ log[2].kind = "ok"
    /\ log[2].n > 0
    /\ Len(outFile) = log[2].n
    /\ \A i \in 1..Len(outFile) : outFile[i].cfg = 2

\* C7: whatever fails while a document is handled, main() reaches its end
\* and reports the total, which is the number of records appended to the
\* output since it was cleared.
RunAlwaysCompletes ==
    pc \in {"done", "aborted"} =>
        /\ pc = "done"
        /\ log[Len(log)] = Printed("total", 0, total)
        /\ total = Len(outFile)

\* The text the primary extractor's outcome leaves in txt.
PrimaryText == IF prim.raised THEN <<>> ELSE prim.text

\* What holds of the extractor calls in every state of a run.
ExtractionInv ==
    /\ primCalls <= 1
    /\ fbCalls <= 1
    /\ pc = "primary" => primCalls = 0 /\ fbCalls = 0
    /\ pc = "check" => primCalls = 1 /\ fbCalls = 0
    /\ pc \in {"build", "write"} =>
        /\ primCalls = 1
        /\ fbCalls = 1 <=> (prim.raised \/ Len(prim.text) < MinLen)
        /\ text = IF fbCalls = 1 /\ ~alt.raised
                     /\ Len(alt.text) > Len(PrimaryText)
                  THEN alt.text
                  ELSE PrimaryText
        /\ (prim.raised /\ fbCalls = 1 /\ alt.raised) => text = <<>>
    /\ (pc = "write" /\ IsBlankText(text)) => records = <<>>

\* No exception leaves read_pdf_text: it always returns to
\* build_records_per_pdf.
ExtractionReturns ==
    pc \in {"primary", "check"} => pc' \in {"check", "build"}

\* An empty or whitespace-only text gives zero records and no exception.
BlankTextReturns ==
    (pc = "build" /\ IsBlankText(text)) => (pc' = "write" /\ records' = <<>>)

\* C9: per document the primary extractor is called exactly once and the
\* fallback at most once, only when the primary raised or returned fewer
\* than MinLen characters; the result is the fallback's text when it is
\* strictly longer and the primary's text otherwise, the empty text when
\* both fail; no exception leaves read_pdf_text; an empty or
\* whitespace-only text gives zero records without raising.
FallbackIsOneShot ==
    /\ []ExtractionInv
    /\ [][ExtractionReturns]_vars
    /\ [][BlankTextReturns]_vars

\* C9 witness: the primary returned MinLen - 1 characters, the fallback was
\* called and its longer text was returned.
FallbackWitness ==
    /\ pc = "build"
    /\ fbCalls = 1
    /\ ~prim.raised
    /\ Len(prim.text) = MinLen - 1
    /\ Len(alt.text) = MinLen
    /\ text = alt.text

(***************************************************************************)
(* Input texts of the normalizer.                                          *)
(***************************************************************************)
MaxCleanLen == 5
MaxBlank == 5

CleanAlphabet == {"a", "-", " ", "\t", "\n", "\f", NUL}

AllTexts(A, n) == UNION {[1..k -> A] : k \in 0..n}

\* Two non-blank lines with k blank (empty or whitespace-only) lines between.
FirstLines == {<<"a">>, <<"a", " ">>, <<"a", "-", " ">>, <<NUL, "a", "\t", "\t">>}
LastLines == {<<"b">>, <<" ", "b">>, <<NBSP, " ", "b">>}
BlankLines == {<<>>, <<" ">>}

BlankRunTexts ==
    {Join(<<f>> \o bl \o <<l>>) :
        f \in FirstLines, l \in LastLines,
        bl \in UNION {[1..k -> BlankLines] : k \in 0..MaxBlank}}

CleanInputs == AllTexts(CleanAlphabet, MaxCleanLen) \cup BlankRunTexts

InitClean ==
    /\ pc = "input"
    /\ text \in CleanInputs
    /\ cleaned = <<>>
    /\ blocks = <<>>
    /\ records = <<>>
    /\ idx = 0
    /\ prim = NoOutcome
    /\ alt = NoOutcome
    /\ txt = <<>>
    /\ primCalls = 0
    /\ fbCalls = 0
    /\ outFile = <<>>
    /\ total = 0
    /\ log = <<>>

\* One call of minimal_clean on the input text.
Clean ==
    /\ pc = "input"
    /\ cleaned' = minimal_clean(text)
    /\ pc' = "cleaned"
    /\ UNCHANGED <<text, blocks, records, idx, prim, alt, txt, primCalls,
                   fbCalls, outFile, total, log>>

NextClean == Clean

SpecClean == InitClean /\ [][NextClean]_vars

(***************************************************************************)
(* Properties of the normalizer (SpecClean).                               *)
(***************************************************************************)
\* C4: normalizing already-normalized text changes nothing:
\* minimal_clean(minimal_clean(t)) = minimal_clean(t) for every input t.
NormalizerIdempotent ==
    pc = "cleaned" => minimal_clean(cleaned) = cleaned

\* A line that is empty once NUL is removed and whitespace is trimmed.
IsBlankLine(ln) == \A i \in 1..Len(ln) : IsSpace(ln[i]) \/ ln[i] = NUL

\* Rule 3 applies: a hyphen directly before a line feed.
HasHyphenBreak(t) ==
    LET u == RemoveNul(t)
    IN  \E q \in 1..(Len(u) - 1) : u[q] = "-" /\ u[q + 1] = "\n"

\* The text is two non-blank lines with only blank lines between them, and
\* rule 3 does not apply to it.
IsBlankRunForm(t) ==
    LET lines == SplitLines(t)
    IN  /\ Len(lines) >= 2
        /\ ~IsBlankLine(lines[1])
        /\ ~IsBlankLine(lines[Len(lines)])
        /\ \A i \in 2..(Len(lines) - 1) : IsBlankLine(lines[i])
        /\ ~HasHyphenBreak(t)

BlankCount(t) == Len(SplitLines(t)) - 2

\* The text is two non-empty lines with exactly k empty lines between them.
HasBlankRun(t, k) ==
    LET lines == SplitLines(t)
    IN  /\ Len(lines) = k + 2
        /\ lines[1] # <<>>
        /\ lines[Len(lines)] # <<>>
        /\ \A i \in 2..(Len(lines) - 1) : lines[i] = <<>>
        /\ \A i \in 1..Len(t) : IsBreak(t[i]) => t[i] = "\n"

\* C5 as stated: between two non-blank lines, 1, 2 and 3 consecutive blank
\* lines are preserved, and 4 or more are collapsed to 2.
BlankLinesKeptUpToThree ==
    (pc = "cleaned" /\ IsBlankRunForm(text)) =>
        HasBlankRun(cleaned,
                    IF BlankCount(text) <= 3 THEN BlankCount(text) ELSE 2)

\* C5 as amended: between two non-blank lines (the first not ending in a
\* hyphen directly before the line feed), 0, 1 and 2 consecutive blank lines
\* (up to 3 line breaks) are preserved, and 3 or more blank lines (4 or more
\* line breaks) are collapsed to 1 blank line (2 line breaks).
BlankLinesKeptUpToTwo ==
    (pc = "cleaned" /\ IsBlankRunForm(text)) =>
        HasBlankRun(cleaned,
                    IF BlankCount(text) <= 2 THEN BlankCount(text) ELSE 1)

\* C5 witness: a run of 4 blank lines has been collapsed to 1 blank line.
BlankLinesCollapsedWitness ==
    /\ pc = "cleaned"
    /\ IsBlankRunForm(text)
    /\ BlankCount(text) = 4
    /\ HasBlankRun(cleaned, 1)

====
